---- MODULE Spec2Model ----
(***************************************************************************)
(* Model of pivpy/io.py: readers of TSI/OpenPIV ".vec" vector fields.      *)
(*                                                                         *)
(* A text is a sequence of one-character strings; indices passed to the    *)
(* string operators are Python's (0-based, negative counts from the end).  *)
(* A Python value that may be None is None (<<>>) or Some(v) (<<v>>).      *)
(* A call returns [kind |-> "ok", ...] or [kind |-> "error", exc |-> e],   *)
(* e the name of the Python exception the call raises.                     *)
(***************************************************************************)
EXTENDS Integers, Sequences, FiniteSets, TLC

VARIABLES files, args, op, result, prev, calls

vars == <<files, args, op, result, prev, calls>>

(***************************************************************************)
(* Bounds                                                                  *)
(***************************************************************************)
\* grid rows and columns written in a header or passed to loadvec: 1..MaxDim
MaxDim == 3
\* files matching *.vec in the directory: 0..MaxFiles
MaxFiles == 3

(***************************************************************************)
(* Python values                                                           *)
(***************************************************************************)
None == <<>>
Some(v) == <<v>>
Val(o) == o[1]

Ok(v) == [kind |-> "ok", val |-> v]
Err(e) == [kind |-> "error", exc |-> e]
Idle == [kind |-> "idle"]

Min(S) == CHOOSE x \in S : \A y \in S : x <= y

\* F(v), with v evaluated once however often F uses it
Bind(v, F(_)) == CHOOSE y \in {F(x) : x \in {v}} : TRUE

(***************************************************************************)
(* str operations                                                          *)
(***************************************************************************)
\* a slice bound of a text of length n, as Python normalises it
Clamp(i, n) == IF i < 0 THEN (IF i + n < 0 THEN 0 ELSE i + n)
                        ELSE (IF i > n THEN n ELSE i)

\* s[a:b]
Slice(s, a, b) ==
  LET lo == Clamp(a, Len(s))
      hi == Clamp(b, Len(s))
  IN IF lo >= hi THEN <<>> ELSE SubSeq(s, lo + 1, hi)

\* s[a:]
SliceFrom(s, a) == Slice(s, a, Len(s))

\* s.find(sub, start): lowest 0-based index >= start where sub occurs, else -1
Find(s, sub, start) ==
  LET from == Clamp(start, Len(s))
      hits == {i \in from .. (Len(s) - Len(sub)) :
                 \A k \in 1 .. Len(sub) : s[i + k] = sub[k]}
  IN IF hits = {} THEN -1 ELSE Min(hits)

\* s.split(c) for a one-character separator c: never empty, keeps empty pieces
RECURSIVE Split(_, _)
Split(s, c) ==
  LET i == Find(s, <<c>>, 0)
  IN IF i = -1 THEN <<s>>
     ELSE <<SubSeq(s, 1, i)>> \o Split(SubSeq(s, i + 2, Len(s)), c)

\* s.replace(c, d) for one-character c and d
Replace(s, c, d) == [i \in 1 .. Len(s) |-> IF s[i] = c THEN d ELSE s[i]]

IsSpace(c) == c \in {" ", "\n"}

\* s.split(): pieces between runs of whitespace, no empty piece
RECURSIVE SplitWS(_)
SplitWS(s) ==
  IF s = <<>> THEN <<>>
  ELSE IF IsSpace(s[1]) THEN SplitWS(Tail(s))
  ELSE LET ends == {i \in 1 .. Len(s) : IsSpace(s[i])}
           stop == IF ends = {} THEN Len(s) + 1 ELSE Min(ends)
       IN <<SubSeq(s, 1, stop - 1)>> \o SplitWS(SubSeq(s, stop, Len(s)))

\* l[::2]
Stride2(l) == [i \in 1 .. ((Len(l) + 1) \div 2) |-> l[2 * i - 1]]

\* l[a:b] of a list is the slice of the sequence
ListSlice(l, a, b) == Slice(l, a, b)

Digits == <<"0", "1", "2", "3", "4", "5", "6", "7", "8", "9">>
IsDigit(c) == \E d \in 1 .. 10 : Digits[d] = c
DigitVal(c) == (CHOOSE d \in 1 .. 10 : Digits[d] = c) - 1

RECURSIVE Decimal(_)
Decimal(s) == IF s = <<>> THEN 0
              ELSE 10 * Decimal(SubSeq(s, 1, Len(s) - 1)) + DigitVal(s[Len(s)])

RECURSIVE Strip(_)
Strip(s) == IF s = <<>> THEN s
            ELSE IF IsSpace(s[1]) THEN Strip(Tail(s))
            ELSE IF IsSpace(s[Len(s)]) THEN Strip(SubSeq(s, 1, Len(s) - 1))
            ELSE s

\* int(s) and float(s) on the texts a header of this model contains: an
\* unsigned run of decimal digits, whitespace around it ignored; anything else
\* (the empty text included) raises ValueError
ParseNumber(s) ==
  LET t == Strip(s)
  IN IF t # <<>> /\ \A i \in 1 .. Len(t) : IsDigit(t[i])
     THEN Ok(Decimal(t)) ELSE Err("ValueError")

(***************************************************************************)
(* Texts of the source                                                     *)
(***************************************************************************)
VARIABLES_EQ == <<"V","A","R","I","A","B","L","E","S","=">>
DT_MARKER == <<"M","i","c","r","o","s","e","c","o","n","d","s","P","e","r","D","e","l","t","a","T">>
QUOTE == "\""
QX == <<"\"","X">>
QU == <<"\"","U">>
PIXEL == <<"p","i","x","e","l">>
DT_UNIT == <<"d","t">>
MM == <<"m","m">>
M_S == <<"m","/","s">>
SEC == <<"s">>

(***************************************************************************)
(* get_units                                                               *)
(***************************************************************************)
\* the unit that follows the first occurrence of `name` at or after ind2:
\* header[ind3+3:ind4]
unit_after(header, name, ind2) ==
  LET ind3 == Find(header, name, ind2)
      ind4 == Find(header, <<QUOTE>>, ind3 + 1)
  IN Slice(header, ind3 + 3, ind4)

\* if ind2 > 0: only if there is a valid header
valid_header(ind2) == ind2 > 0

\* velUnits.split('/')[1], or 'dt' for pixel
time_units(velUnits) ==
  IF velUnits = PIXEL THEN Ok(DT_UNIT)
  ELSE LET parts == Split(velUnits, "/")
       IN IF Len(parts) < 2 THEN Err("IndexError") ELSE Ok(parts[2])

\* the fallback of a unit that is still None
fallback(u, default) == IF u = None THEN Some(default) ELSE u

get_units(header) ==
  LET ind2 == Find(header, VARIABLES_EQ, 0)
  IN IF valid_header(ind2)
     THEN LET lUnits == Some(unit_after(header, QX, ind2))
              velUnits == Some(unit_after(header, QU, ind2))
              tUnits == time_units(Val(velUnits))
          IN IF tUnits.kind = "error" THEN tUnits
             ELSE Ok(<<fallback(lUnits, MM), fallback(velUnits, M_S),
                       fallback(Some(tUnits.val), SEC)>>)
     ELSE Ok(<<None, None, None>>)

(***************************************************************************)
(* get_dt                                                                  *)
(***************************************************************************)
\* the whole line taken when the marker is absent: header[max(ind1, 0):]
dt_tail_from_start(header, ind1) == SliceFrom(header, IF ind1 < 0 THEN 0 ELSE ind1)

\* header[ind1:], ind1 = -1 when the marker is absent
dt_tail(header, ind1) == SliceFrom(header, ind1)

get_dt(header) ==
  LET ind1 == Find(header, DT_MARKER, 0)
      parts == Split(dt_tail(header, ind1), QUOTE)
  IN IF Len(parts) < 2 THEN Err("IndexError") ELSE ParseNumber(parts[2])

(***************************************************************************)
(* parse_header                                                            *)
(***************************************************************************)
\* header.replace(',',' ').replace('=',' ').replace('"',' ').split()
header_list_of(header) ==
  SplitWS(Replace(Replace(Replace(header, ",", " "), "=", " "), QUOTE, " "))

\* header_list[3:12][::2]
variables_of(header_list) == Stride2(ListSlice(header_list, 3, 12))

\* header_list[4:12][::2]
units_of(header_list) == Stride2(ListSlice(header_list, 4, 12))

\* int(header_list[-k]): IndexError when the list has fewer than k tokens
int_from_end(header_list, k) ==
  IF Len(header_list) < k THEN Err("IndexError")
  ELSE ParseNumber(header_list[Len(header_list) - k + 1])

parse_header(header) ==
  LET header_list == header_list_of(header)
      rows == int_from_end(header_list, 5)
      cols == int_from_end(header_list, 3)
  IN IF rows.kind = "error" THEN rows
     ELSE IF cols.kind = "error" THEN cols
     ELSE Ok([variables |-> variables_of(header_list),
              units |-> units_of(header_list),
              rows |-> rows.val, cols |-> cols.val])

(***************************************************************************)
(* loadvec                                                                 *)
(*                                                                         *)
(* A file is [name, header, body]: header the text of its first line, body *)
(* the rows np.loadtxt reads from the other lines, each <<x, y, u, v, cnc>>.*)
(* A call is [res |-> its outcome, log |-> the calls it made, in order].   *)
(***************************************************************************)
Called(fn, f) == <<fn, f.name>>

\* the header parsed whatever the caller passed
need_header_always(rows, cols) == TRUE

\* if rows is None or cols is None
need_header(rows, cols) == rows = None \/ cols = None

\* 'and' in the place of 'or'
attach_cond_both(variables, units) == variables # None /\ units = None

\* if variables is not None or units is None
attach_cond(variables, units) == variables # None \/ units = None

\* np.loadtxt(...).reshape(rows, cols, 5): d[i][j] is the row of grid point
\* (i, j), C order; ValueError unless the body has rows*cols rows
reshape(body, rows, cols) ==
  IF Len(body) # rows * cols THEN Err("ValueError")
  ELSE Ok([i \in 1 .. rows |-> [j \in 1 .. cols |-> body[(i - 1) * cols + j]]])

\* d[:,:,c]
column(d, c) == [i \in 1 .. Len(d) |-> [j \in 1 .. Len(d[i]) |-> d[i][j][c + 1]]]

\* d[:,:,0][0,:]
x_coord(d) == column(d, 0)[1]

\* d[:,:,1][:,0]
y_coord(d) == [i \in 1 .. Len(d) |-> column(d, 1)[i][1]]

\* xr.DataArray(a, dims=('x','y'), coords={'x': x, 'y': y}): ValueError when a
\* coordinate's length differs from the size of the dimension it labels
DataArray(a, x, y) ==
  IF Len(x) # Len(a) \/ Len(y) # Len(a[1]) THEN Err("ValueError")
  ELSE Ok([values |-> a, x |-> x, y |-> y])

\* the statements after dt is known: lines 149-162
assemble(f, rows, cols, variables, units, dt) ==
  Bind(reshape(f.body, rows, cols), LAMBDA d :
    IF d.kind = "error" THEN d
    ELSE Bind(<<DataArray(column(d.val, 2), x_coord(d.val), y_coord(d.val)),
                DataArray(column(d.val, 3), x_coord(d.val), y_coord(d.val)),
                DataArray(column(d.val, 4), x_coord(d.val), y_coord(d.val))>>,
              LAMBDA uvc :
      LET u == uvc[1]
          v == uvc[2]
          cnc == uvc[3]
      IN IF u.kind = "error" THEN u
         ELSE Ok([u |-> u.val.values, v |-> v.val.values,
                  cnc |-> cnc.val.values,
                  x |-> u.val.x, y |-> u.val.y,
                  attrs |-> IF attach_cond(variables, units)
                            THEN Some([variables |-> variables,
                                       units |-> units, dt |-> dt])
                            ELSE None])))

\* the statements after the header is known: lines 146-162
with_dt(f, rows, cols, variables, units, dt, log) ==
  IF dt = None
  THEN Bind(get_dt(f.header), LAMBDA t :
         LET log2 == Append(log, Called("get_dt", f))
         IN IF t.kind = "error" THEN [res |-> t, log |-> log2]
            ELSE [res |-> assemble(f, rows, cols, variables, units, Some(t.val)),
                  log |-> Append(log2, Called("loadtxt", f))])
  ELSE [res |-> assemble(f, rows, cols, variables, units, dt),
        log |-> Append(log, Called("loadtxt", f))]

\* a is [rows, cols, variables, units, dt], each None or Some(value)
loadvec(f, a) ==
  IF need_header(a.rows, a.cols)
  THEN Bind(parse_header(f.header), LAMBDA h :
         LET log == <<Called("parse_header", f)>>
         IN IF h.kind = "error" THEN [res |-> h, log |-> log]
            ELSE with_dt(f, h.val.rows, h.val.cols, Some(h.val.variables),
                         Some(h.val.units), a.dt, log))
  ELSE with_dt(f, Val(a.rows), Val(a.cols), a.variables, a.units, a.dt, <<>>)

(***************************************************************************)
(* load_directory                                                          *)
(***************************************************************************)
\* files[0] of a list that is never found empty: parse_header is then called
\* with a name that matches no file
first_file_unchecked(fs) ==
  IF fs = <<>> THEN Ok([name |-> 0, header |-> <<>>, body |-> <<>>]) ELSE Ok(fs[1])

\* files[0]: IndexError on the empty list
first_file(fs) == IF fs = <<>> THEN Err("IndexError") ELSE Ok(fs[1])

\* xr.concat(data, dim='t'): the fields stacked along t in list order, the
\* x and y of the fields (equal in every field of this model) and the attrs of
\* the first one kept
concat(data) ==
  IF data = <<>> THEN Err("ValueError")
  ELSE Ok([t |-> Len(data),
           u |-> [i \in 1 .. Len(data) |-> data[i].u],
           v |-> [i \in 1 .. Len(data) |-> data[i].v],
           cnc |-> [i \in 1 .. Len(data) |-> data[i].cnc],
           x |-> data[1].x, y |-> data[1].y,
           attrs |-> data[1].attrs])

\* combined.attrs['variables'] = variables; combined.attrs['units'] = units
set_attrs(c, variables, units) ==
  [t |-> c.t, u |-> c.u, v |-> c.v, cnc |-> c.cnc, x |-> c.x, y |-> c.y,
   attrs |-> Some([variables |-> variables, units |-> units,
                   dt |-> Val(c.attrs).dt])]

\* for f in files: data.append(loadvec(f,rows,cols,variables,units)), from the
\* i-th file on; the first failure ends the loop
RECURSIVE load_each(_, _, _, _, _)
load_each(fs, i, a, data, log) ==
  IF i > Len(fs) THEN [res |-> Ok(data), log |-> log]
  ELSE Bind(<<loadvec(fs[i], a), data, log>>, LAMBDA s :
         LET r == s[1]
         IN IF r.res.kind = "error" THEN [res |-> r.res, log |-> s[3] \o r.log]
            ELSE load_each(fs, i + 1, a, Append(s[2], r.res.val), s[3] \o r.log))

\* lines 92-100, the header h of the first file parsed
load_parsed(fs, h, log) ==
  LET a == [rows |-> Some(h.rows), cols |-> Some(h.cols),
            variables |-> Some(h.variables), units |-> Some(h.units),
            dt |-> None]
  IN Bind(load_each(fs, 1, a, <<>>, log), LAMBDA each :
       IF each.res.kind = "error" THEN each
       ELSE Bind(concat(each.res.val), LAMBDA combined :
              [res |-> IF combined.kind = "error" THEN combined
                       ELSE Ok(set_attrs(combined.val, h.variables, h.units)),
               log |-> each.log]))

load_directory(fs) ==
  Bind(first_file(fs), LAMBDA first :
    IF first.kind = "error" THEN [res |-> first, log |-> <<>>]
    ELSE Bind(parse_header(first.val.header), LAMBDA h :
           LET log == <<Called("parse_header", first.val)>>
           IN IF h.kind = "error" THEN [res |-> h, log |-> log]
              ELSE load_parsed(fs, h.val, log)))

(***************************************************************************)
(* Headers and files the operations are applied to                         *)
(***************************************************************************)
TITLE_T == <<"T","I","T","L","E","=","\"","t","\""," ">>
SHORT_T == <<"T"," ">>
X_OPEN == <<"\"","X"," ">>
Y_PART == <<","," ","\"","Y"," ","m","m","\"",","," ">>
U_OPEN == <<"\"","U"," ">>
V_PART == <<","," ","\"","V"," ","m","/","s","\"">>
CHC_PART == <<","," ","\"","C","H","C","\"",",">>
DT_OPEN == <<" ","M","i","c","r","o","s","e","c","o","n","d","s","P","e","r","D","e","l","t","a","T","=","\"">>
ZONE_I == <<" ","Z","O","N","E"," ","I","=">>
ZONE_J == <<","," ","J","=">>
ZONE_END == <<","," ","F","=","P","O","I","N","T">>
NL == <<"\n">>
PIX == <<"p","i","x">>
M_S_S == <<"m","/","s","/","s">>

RECURSIVE NumText(_)
NumText(n) == IF n < 10 THEN <<Digits[n + 1]>>
              ELSE NumText(n \div 10) \o <<Digits[(n % 10) + 1]>>

\* the header line of a TSI .vec file, e.g.
\*   TITLE="t" VARIABLES="X mm", "Y mm", "U m/s", "V m/s", "CHC",
\*     MicrosecondsPerDeltaT="5" ZONE I=3, J=2, F=POINT
\* with the parts p leaves out or changes
HeaderText(p) ==
     (CASE p.title = "none" -> <<>> [] p.title = "short" -> SHORT_T
        [] OTHER -> TITLE_T)
  \o (IF p.marker THEN VARIABLES_EQ ELSE <<>>)
  \o (IF p.x = None THEN <<>> ELSE X_OPEN \o Val(p.x) \o <<QUOTE>>)
  \o Y_PART
  \o (IF p.u = None THEN <<>> ELSE U_OPEN \o Val(p.u) \o <<QUOTE>>)
  \o V_PART
  \o (IF p.chc THEN CHC_PART ELSE <<>>)
  \o (IF p.dt = None THEN <<>> ELSE DT_OPEN \o NumText(Val(p.dt)) \o <<QUOTE>>)
  \o ZONE_I \o NumText(p.rows) \o ZONE_J \o NumText(p.cols) \o ZONE_END \o NL

Dims == 1 .. MaxDim
DtChoices == {None, Some(5)}

HeaderParams ==
  [title : {"none", "short", "title"}, marker : BOOLEAN,
   x : {None, Some(<<>>), Some(MM)},
   u : {None, Some(<<>>), Some(M_S), Some(PIXEL), Some(PIX), Some(M_S_S)},
   chc : BOOLEAN, dt : DtChoices, rows : Dims, cols : Dims]

\* first lines that are no header at all: an empty file, a bare newline, a
\* quoted number, a line that ends in a quote
OddHeaders ==
  {<<>>, NL, <<QUOTE, "5", QUOTE>>, <<QUOTE, "5", QUOTE>> \o NL,
   <<"5", QUOTE>>, VARIABLES_EQ, VARIABLES_EQ \o <<QUOTE, "5", QUOTE>> \o NL}

Headers == {HeaderText(p) : p \in HeaderParams} \cup OddHeaders

\* headers of the shape parse_header and get_units are written for
GoodParams ==
  [title : {"title"}, marker : {TRUE}, x : {Some(MM)}, u : {Some(M_S)},
   chc : {TRUE}, dt : DtChoices, rows : Dims, cols : Dims]

\* the n rows of a body: x and y do not depend on seed, u, v and cnc do
Body(seed, n) == [i \in 1 .. n |-> <<i, 10 + i, seed + i, seed + 2 * i, seed>>]

File(k, header, body) == [name |-> k, header |-> header, body |-> body]

NoArgs == [rows |-> None, cols |-> None, variables |-> None, units |-> None,
           dt |-> None]

XYUV == <<<<"X">>, <<"Y">>, <<"U">>, <<"V">>>>
UNITS4 == <<MM, MM, M_S, M_S>>

\* what a caller of loadvec may pass
ArgChoices ==
  [rows : {None} \cup {Some(r) : r \in Dims},
   cols : {None} \cup {Some(c) : c \in Dims},
   variables : {None, Some(XYUV)}, units : {None, Some(UNITS4)},
   dt : {None, Some(7)}]

(***************************************************************************)
(* The header functions applied to one first line                          *)
(***************************************************************************)
InitHeader ==
  /\ \E h \in Headers : files = <<File(1, h, <<>>)>>
  /\ args = NoArgs /\ op = "none" /\ result = Idle /\ prev = Idle
  /\ calls = <<>>

GetUnits ==
  /\ op = "none"
  /\ op' = "get_units"
  /\ result' = get_units(files[1].header)
  /\ calls' = <<Called("get_units", files[1])>>
  /\ UNCHANGED <<files, args, prev>>

GetDt ==
  /\ op = "none"
  /\ op' = "get_dt"
  /\ result' = get_dt(files[1].header)
  /\ calls' = <<Called("get_dt", files[1])>>
  /\ UNCHANGED <<files, args, prev>>

ParseHeader ==
  /\ op = "none"
  /\ op' = "parse_header"
  /\ result' = parse_header(files[1].header)
  /\ calls' = <<Called("parse_header", files[1])>>
  /\ UNCHANGED <<files, args, prev>>

NextHeader == GetUnits \/ GetDt \/ ParseHeader

SpecHeader == InitHeader /\ [][NextHeader]_vars

(***************************************************************************)
(* loadvec applied to one file                                             *)
(***************************************************************************)
InitLoad ==
  /\ \E p \in GoodParams, n \in 1 .. MaxDim * MaxDim :
       files = <<File(1, HeaderText(p), Body(0, n))>>
  /\ args = NoArgs /\ op = "none" /\ result = Idle /\ prev = Idle
  /\ calls = <<>>

\* loadvec(filename, rows, cols, variables, units, dt), any of them left out
LoadVec ==
  /\ op = "none"
  /\ \E a \in ArgChoices : \E r \in {loadvec(files[1], a)} :
       args' = a /\ result' = r.res /\ calls' = r.log
  /\ op' = "loadvec"
  /\ UNCHANGED <<files, prev>>

\* after loadvec(filename): loadvec(filename, rows, cols, variables, units, dt)
\* with the values parse_header and get_dt give for the file
Reload ==
  /\ op = "loadvec" /\ args = NoArgs
  /\ LET h == parse_header(files[1].header)
         t == get_dt(files[1].header)
     IN /\ h.kind = "ok" /\ t.kind = "ok"
        /\ LET a == [rows |-> Some(h.val.rows), cols |-> Some(h.val.cols),
                     variables |-> Some(h.val.variables),
                     units |-> Some(h.val.units), dt |-> Some(t.val)]
               r == loadvec(files[1], a)
           IN args' = a /\ result' = r.res /\ calls' = r.log
  /\ prev' = result
  /\ op' = "reload"
  /\ UNCHANGED files

NextLoad == LoadVec \/ Reload

SpecLoad == InitLoad /\ [][NextLoad]_vars

(***************************************************************************)
(* load_directory applied to the files glob finds                          *)
(***************************************************************************)
\* n files with the same header; the last one may be a row short
InitDir ==
  /\ \E p \in GoodParams, n \in 0 .. MaxFiles, seed \in 0 .. 1, short \in BOOLEAN :
       files = [k \in 1 .. n |->
                  File(k, HeaderText(p),
                       Body(seed + k, IF short /\ k = n
                                      THEN p.rows * p.cols - 1
                                      ELSE p.rows * p.cols))]
  /\ args = NoArgs /\ op = "none" /\ result = Idle /\ prev = Idle
  /\ calls = <<>>

LoadDirectory ==
  /\ op = "none"
  /\ \E r \in {load_directory(files)} : result' = r.res /\ calls' = r.log
  /\ op' = "load_directory"
  /\ UNCHANGED <<files, args, prev>>

NextDir == LoadDirectory

SpecDir == InitDir /\ [][NextDir]_vars

(***************************************************************************)
(* Properties                                                              *)
(***************************************************************************)
header == files[1].header

Contains(s, sub) == Find(s, sub, 0) >= 0

AllNone == Ok(<<None, None, None>>)

\* the header contains 'VARIABLES=' somewhere after its first character
MarkerFound(h) == Find(h, VARIABLES_EQ, 0) > 0

\* C1: get_units returns (None, None, None) if and only if the header does not
\* contain 'VARIABLES=', wherever in the line the marker stands.
C1_AllNoneIffNoMarker ==
  op = "get_units" =>
    ((result = AllNone) <=> ~Contains(header, VARIABLES_EQ))

\* a header of the token pattern parse_header is written for: three tokens,
\* the third VARIABLES, then X, Y, U, V each followed by its unit, and at the
\* end I <digits> J <digits> F POINT
IsNumber(tok) == tok # <<>> /\ \A i \in 1 .. Len(tok) : IsDigit(tok[i])

WellFormed(h) ==
  LET t == header_list_of(h)
      n == Len(t)
  IN /\ n >= 17
     /\ t[3] = <<"V","A","R","I","A","B","L","E","S">>
     /\ <<t[4], t[6], t[8], t[10]>> = XYUV
     /\ t[n - 5] = <<"I">> /\ IsNumber(t[n - 4])
     /\ t[n - 3] = <<"J">> /\ IsNumber(t[n - 2])
     /\ t[n - 1] = <<"F">>

\* C2: on a well-formed header parse_header returns variables = [X, Y, U, V]
\* (four of them), units = the four unit tokens that follow them, rows = the
\* 5th-from-last token and cols = the 3rd-from-last token, as integers.
C2_ParseHeaderFields ==
  (op = "parse_header" /\ WellFormed(header)) =>
    LET t == header_list_of(header)
    IN /\ result.kind = "ok"
       /\ result.val.variables = XYUV
       /\ result.val.units = <<t[5], t[7], t[9], t[11]>>
       /\ result.val.rows = Decimal(t[Len(t) - 4])
       /\ result.val.cols = Decimal(t[Len(t) - 2])

\* the rows and cols loadvec works with, and the dt it needs from the header
EffRows == IF args.rows = None \/ args.cols = None
           THEN parse_header(header).val.rows ELSE Val(args.rows)
EffCols == IF args.rows = None \/ args.cols = None
           THEN parse_header(header).val.cols ELSE Val(args.cols)
DtKnown == args.dt # None \/ get_dt(header).kind = "ok"

\* C3: for all positive rows and cols, equal or not, and a body of exactly
\* rows*cols rows, loadvec succeeds with u, v, cnc of shape (rows, cols), x of
\* length cols, y of length rows, and each coordinate as long as the dimension
\* it labels (x the first, y the second).
C3_ReshapeShape ==
  (op = "loadvec" /\ DtKnown /\ Len(files[1].body) = EffRows * EffCols) =>
    /\ result.kind = "ok"
    /\ \A a \in {result.val.u, result.val.v, result.val.cnc} :
         /\ Len(a) = EffRows
         /\ \A i \in 1 .. Len(a) : Len(a[i]) = EffCols
    /\ Len(result.val.x) = EffCols
    /\ Len(result.val.y) = EffRows
    /\ Len(result.val.x) = Len(result.val.u)
    /\ Len(result.val.y) = Len(result.val.u[1])

\* the whole of v after its first '/'
AfterSlash(v) == SliceFrom(v, Find(v, <<"/">>, 0) + 1)

\* C4: whenever the header contains 'VARIABLES=', get_units returns, with
\* time unit 'dt' if the velocity unit is 'pixel' and otherwise the whole of
\* the velocity unit after its '/', also when it has no '/' or several.
\* (Stated for a marker after the start of the line; at the start see C1.)
C4_TimeUnit ==
  (op = "get_units" /\ MarkerFound(header)) =>
    /\ result.kind = "ok"
    /\ result.val[2] # None /\ result.val[3] # None
    /\ IF Val(result.val[2]) = PIXEL
       THEN Val(result.val[3]) = DT_UNIT
       ELSE Val(result.val[3]) = AfterSlash(Val(result.val[2]))

\* a quoted token that starts with the letter c stands after the marker
Quoted(h, c) == Find(h, <<QUOTE, c>>, Find(h, VARIABLES_EQ, 0)) >= 0

\* C5: when the header contains 'VARIABLES=' and a unit cannot be resolved,
\* get_units returns the default for that unit: 'mm' without a quoted X token,
\* 'm/s' without a quoted U token, 's' without a time unit to derive.
\* (Stated for a marker after the start of the line; at the start see C1.)
C5_Defaults ==
  (op = "get_units" /\ MarkerFound(header)) =>
    /\ result.kind = "ok"
    /\ ~Quoted(header, "X") => result.val[1] = Some(MM)
    /\ ~Quoted(header, "U") => result.val[2] = Some(M_S)
    /\ (~Quoted(header, "U") \/ ~Contains(Val(result.val[2]), <<"/">>))
         => result.val[3] \in {Some(SEC), Some(DT_UNIT)}

\* C6: on a header without 'MicrosecondsPerDeltaT' get_dt raises and returns
\* no number, whatever else the line holds.
C6_NoMarkerNoDt ==
  (op = "get_dt" /\ ~Contains(header, DT_MARKER)) => result.kind = "error"

\* get_dt has been applied to a line that holds a quoted number and no marker
C6_Witness ==
  /\ op = "get_dt" /\ ~Contains(header, DT_MARKER)
  /\ Contains(header, <<QUOTE, "5", QUOTE>>)
  /\ result.kind = "error"

HeaderCalls == {i \in 1 .. Len(calls) : calls[i][1] \in {"parse_header", "get_dt"}}

\* C7: loadvec with rows, cols, variables, units and dt equal to what
\* parse_header and get_dt give for the file parses no header and extracts no
\* dt, and its outcome (arrays, coordinates, metadata) is that of loadvec
\* without overrides.
C7_RoundTrip ==
  op = "reload" => (result = prev /\ HeaderCalls = {})

\* both calls have returned a dataset
C7_Witness ==
  op = "reload" /\ result.kind = "ok" /\ prev.kind = "ok" /\ Len(calls) = 1

\* C8 as stated: the dataset has no metadata exactly when units were passed
\* without variables, whatever was passed for rows and cols.
C8_Original ==
  (op = "loadvec" /\ result.kind = "ok") =>
    ((result.val.attrs = None) <=> (args.variables = None /\ args.units # None))

\* C8, amended: the dataset has no metadata exactly when rows and cols were
\* both passed, units were passed and variables were not; otherwise variables,
\* units and dt are all attached.
C8_Amended ==
  (op = "loadvec" /\ result.kind = "ok") =>
    /\ (result.val.attrs = None) <=>
         (args.rows # None /\ args.cols # None /\ args.variables = None
            /\ args.units # None)
    /\ result.val.attrs # None =>
         (DOMAIN Val(result.val.attrs) = {"variables", "units", "dt"}
            /\ Val(result.val.attrs).dt # None)

\* a dataset was returned without metadata
C8_Witness ==
  /\ op = "loadvec" /\ result.kind = "ok" /\ result.val.attrs = None
  /\ args.variables = None /\ args.units # None

\* every file has the rows its header announces and a dt in its header
WellFormedDir ==
  \A k \in 1 .. Len(files) :
    /\ WellFormed(files[k].header)
    /\ get_dt(files[k].header).kind = "ok"
    /\ LET h == parse_header(files[k].header)
       IN h.kind = "ok" /\ Len(files[k].body) = h.val.rows * h.val.cols

CallsOf(fn) == SelectSeq(calls, LAMBDA c : c[1] = fn)

\* C9: for N >= 1 well-formed files with the same header, load_directory
\* parses the header of the first file only, loads the files in enumeration
\* order and returns a dataset with t of length N, the i-th slice the body of
\* the i-th file, and the variables and units of the first header.
C9_Directory ==
  (op = "load_directory" /\ Len(files) >= 1 /\ WellFormedDir) =>
    LET h == parse_header(files[1].header).val
    IN /\ result.kind = "ok"
       /\ CallsOf("parse_header") = <<Called("parse_header", files[1])>>
       /\ CallsOf("loadtxt") = [k \in 1 .. Len(files) |-> Called("loadtxt", files[k])]
       /\ result.val.t = Len(files)
       /\ \A k \in 1 .. Len(files) :
            LET d == reshape(files[k].body, h.rows, h.cols).val
            IN /\ result.val.u[k] = column(d, 2)
               /\ result.val.v[k] = column(d, 3)
               /\ result.val.cnc[k] = column(d, 4)
       /\ Val(result.val.attrs).variables = h.variables
       /\ Val(result.val.attrs).units = h.units

\* C10: with no matching file load_directory raises before any header is
\* parsed or any file opened, and returns no dataset.
C10_EmptyDirectory ==
  (op = "load_directory" /\ files = <<>>) =>
    (result.kind = "error" /\ calls = <<>>)

\* load_directory has run on the empty directory
C10_Witness ==
  op = "load_directory" /\ files = <<>> /\ result = Err("IndexError")

====
